---------------------------- MODULE Spec2Model ----------------------------
(***************************************************************************)
(* Locomotion controller of the WebXR war room (src/src/main.js).          *)
(*                                                                         *)
(* Fixed-point units: lengths in millimetres, angles in milliradians,      *)
(* unit-vector components, sines, cosines, thumbstick axes and normalised  *)
(* device coordinates in thousandths, time in milliseconds.                *)
(***************************************************************************)
EXTENDS Integers, Sequences, FiniteSets, TLC

(***************************************************************************)
(* Bounds of the model.                                                    *)
(***************************************************************************)
\* most key codes held at the same time
MaxHeld == 1
\* the viewer walks at most this many millimetres in one behaviour
MaxWalk == 300
\* mouse-look is explored while |yaw| stays within this many milliradians
MaxYaw == 1600

\* most key codes held at the start of a frame study
MaxKeys == 2
\* rounding slack of a fixed-point length, in millimetres
Slack == 2

(***************************************************************************)
(* Program constants.                                                      *)
(***************************************************************************)
MOVE_SPEED == 3
\* mouse-look sensitivity 0.002 rad per pixel = 2 mrad per pixel
Sensitivity == 2
\* Math.PI / 2 in milliradians
HalfPi == 1571
\* Math.PI in milliradians
Pi == 3142
\* 2 * Math.PI in milliradians
TwoPi == 6283
\* thumbstick deadzone 0.15
Deadzone == 150
\* camera.position.y = 1.6
EyeHeight == 1600
\* teleport discs lie at y = 0.01
MarkerY == 10
\* CircleGeometry(0.3, 32)
MarkerRadius == 300
\* hovered disc scale 1.3, normal scale 1
HoverScale == 1300
NormalScale == 1000
\* panels around the viewer: each ring of markers has one marker per panel
panelCount == 5
\* tan(fov / 2) for the 70 degree vertical field of view
TanHalfFov == 700
\* window.innerWidth / window.innerHeight, a 16:9 window
Aspect == 1778

(***************************************************************************)
(* Fixed-point arithmetic.                                                 *)
(***************************************************************************)
Abs(a) == IF a < 0 THEN -a ELSE a

Max(a, b) == IF a >= b THEN a ELSE b

Min(a, b) == IF a <= b THEN a ELSE b

\* division rounding to nearest, symmetric about zero
Div(a, b) ==
  LET q == (2 * Abs(a) + Abs(b)) \div (2 * Abs(b))
  IN  IF (a < 0) = (b < 0) THEN q ELSE -q

\* floor of the square root of n, by bisection between lo and hi
RECURSIVE Bisect(_, _, _)
Bisect(n, lo, hi) ==
  IF hi - lo <= 1 THEN lo
  ELSE LET mid == (lo + hi) \div 2
       IN  IF mid * mid <= n THEN Bisect(n, mid, hi) ELSE Bisect(n, lo, mid)

\* integer square root, rounded to nearest
Sqrt(n) ==
  LET r == Bisect(n, 0, 4096)
  IN  IF n - r * r > r THEN r + 1 ELSE r

\* sine of a half-turn angle x in 0..Pi, in thousandths (Bhaskara's rational form)
SinHalfTurn(x) ==
  LET p == (x * (Pi - x)) \div 1000
  IN  (16000 * p) \div (49348 - 4 * p)

Sin(a) ==
  LET m == a % TwoPi
  IN  IF m <= Pi THEN SinHalfTurn(m) ELSE -SinHalfTurn(m - Pi)

Cos(a) == Sin(a + HalfPi)

(***************************************************************************)
(* Vectors (THREE.Vector3) and rotations.                                  *)
(***************************************************************************)
Vec(x, y, z) == [x |-> x, y |-> y, z |-> z]

VecAdd(a, b) == Vec(a.x + b.x, a.y + b.y, a.z + b.z)

VecLength(v) == Sqrt(v.x * v.x + v.y * v.y + v.z * v.z)

\* Vector3.normalize: divideScalar(length() || 1); v in thousandths
Normalize(v) ==
  LET len == VecLength(v)
  IN  IF len = 0 THEN v
      ELSE Vec(Div(v.x * 1000, len), Div(v.y * 1000, len), Div(v.z * 1000, len))

\* Vector3.multiplyScalar with the scalar s given in thousandths
Scale(v, s) == Vec(Div(v.x * s, 1000), Div(v.y * s, 1000), Div(v.z * s, 1000))

\* rotation about the X axis by pitch p (positive looks up)
RotateX(v, p) ==
  Vec(v.x,
      Div(v.y * Cos(p) - v.z * Sin(p), 1000),
      Div(v.y * Sin(p) + v.z * Cos(p), 1000))

\* Vector3.applyAxisAngle about (0, 1, 0): the y component passes through
RotateY(v, a) ==
  Vec(Div(v.x * Cos(a) + v.z * Sin(a), 1000),
      v.y,
      Div(v.z * Cos(a) - v.x * Sin(a), 1000))

\* Vector3.applyQuaternion for an orientation of Euler order YXZ (pitch, yaw, 0)
ApplyRotation(v, rot) == RotateY(RotateX(v, rot.pitch), rot.yaw)

(***************************************************************************)
(* Teleport markers: the fixed target set built by init().                 *)
(***************************************************************************)
\* userData.target of each disc: centre, then four rings of five
teleportPositions ==
  << [x |-> 0, z |-> 0],
     [x |-> 0, z |-> -2200], [x |-> 2092, z |-> -680], [x |-> 1293, z |-> 1780],
     [x |-> -1293, z |-> 1780], [x |-> -2092, z |-> -680],
     [x |-> 1176, z |-> -1618], [x |-> 1902, z |-> 618], [x |-> 0, z |-> 2000],
     [x |-> -1902, z |-> 618], [x |-> -1176, z |-> -1618],
     [x |-> 0, z |-> -5000], [x |-> 4755, z |-> -1545], [x |-> 2939, z |-> 4045],
     [x |-> -2939, z |-> 4045], [x |-> -4755, z |-> -1545],
     [x |-> 2939, z |-> -4045], [x |-> 4755, z |-> 1545], [x |-> 0, z |-> 5000],
     [x |-> -4755, z |-> 1545], [x |-> -2939, z |-> -4045] >>

Markers == 1..Len(teleportPositions)

\* "no marker": null for hoveredRing, an empty hit list for a pick
NoMarker == 0

\* materials and scales of the discs and their ring overlays, kept as the sets
\* of markers that carry each hover value: white disc colour (else cyan),
\* disc opacity 0.35 (else in the range 0 to 0.16 the pulse sweeps, which holds
\* the initial 0.15), white overlay colour (else cyan), overlay opacity 0.9
\* (else in the pulse's range 0.15 to 0.55, which holds the initial 0.5),
\* scale 1.3 (else 1). After init() no marker carries a hover value.
\* targets is the list of the discs' userData.target, in the order of
\* teleportMarkers.
NormalMarkers ==
  [white |-> {}, bright |-> {}, overlayWhite |-> {}, overlayBright |-> {},
   enlarged |-> {}, targets |-> teleportPositions]

(***************************************************************************)
(* Picking: Raycaster.setFromCamera / intersectObjects(teleportMarkers).   *)
(***************************************************************************)
\* where a ray from origin o along direction d meets the plane of the discs
\* (NoMarker-valued flag hit = FALSE when it points level or upward)
FloorPoint(o, d) ==
  IF d.y >= 0 THEN [hit |-> FALSE, x |-> 0, z |-> 0]
  ELSE [hit |-> TRUE,
        x |-> o.x + Div(d.x * (o.y - MarkerY), -d.y),
        z |-> o.z + Div(d.z * (o.y - MarkerY), -d.y)]

\* the disc of marker i, at world scale s, contains floor point p
DiscContains(i, s, p) ==
  LET r  == Div(MarkerRadius * s, 1000)
      dx == p.x - teleportPositions[i].x
      dz == p.z - teleportPositions[i].z
  IN  /\ p.hit
      /\ Abs(dx) <= r
      /\ Abs(dz) <= r
      /\ dx * dx + dz * dz <= r * r

\* hits[0].object of intersectObjects: every disc lies in one plane, so all
\* hits share one distance and the sort keeps the order of teleportMarkers
IntersectMarkers(o, d, scales) ==
  LET p    == FloorPoint(o, d)
      hits == {i \in Markers : DiscContains(i, scales[i], p)}
  IN  IF hits = {} THEN NoMarker
      ELSE CHOOSE i \in hits : \A j \in hits : i <= j

\* direction of the camera ray through the point ndc of the view
CameraRay(rot, ndc) ==
  ApplyRotation(Vec(Div(Div(ndc[1] * TanHalfFov, 1000) * Aspect, 1000),
                    Div(ndc[2] * TanHalfFov, 1000),
                    -1000), rot)

\* faulty variant: picking sees a hovered disc at half its size
ScalesShrinkHovered(ms) ==
  [i \in Markers |-> IF i \in ms.enlarged THEN NormalScale \div 2 ELSE NormalScale]

\* scale of every disc
Scales(ms) ==
  [i \in Markers |-> IF i \in ms.enlarged THEN HoverScale ELSE NormalScale]

\* faulty variant: the pick ignores the coordinates it is given and uses the
\* view centre
resolvePickCentre(rig, rot, ms, ndc) ==
  IntersectMarkers(Vec(rig.x, EyeHeight, rig.z), CameraRay(rot, <<0, 0>>),
                   Scales(ms))

\* raycaster.setFromCamera(ndc, camera); intersectObjects(teleportMarkers):
\* the camera stands at eye height above the rig and looks along rot
resolvePick(rig, rot, ms, ndc) ==
  IntersectMarkers(Vec(rig.x, EyeHeight, rig.z), CameraRay(rot, ndc), Scales(ms))

(***************************************************************************)
(* Locomotion: the displacement one render frame adds to cameraRig.         *)
(***************************************************************************)
\* MOVE_SPEED * dt * magnitude in millimetres (dt in ms, magnitude in thousandths)
StepLength(dt, magnitude) == Div(MOVE_SPEED * dt * magnitude, 1000)

\* faulty variant: the deadzone is left out
AxisValueRaw(axes, k) == IF k + 1 <= Len(axes) THEN axes[k + 1] ELSE 0

\* axes[k] behind the deadzone; a missing axis reads undefined, whose
\* Math.abs is NaN and never exceeds the deadzone (k counts from 0 as in JS)
AxisValue(axes, k) ==
  IF k + 1 <= Len(axes) /\ Abs(axes[k + 1]) > Deadzone THEN axes[k + 1] ELSE 0

\* a source moves the viewer when it has a gamepad and a non-zero reading
SourceActive(source) ==
  /\ source.gamepad
  /\ (AxisValue(source.axes, 2) # 0 \/ AxisValue(source.axes, 3) # 0)

\* faulty variant: any deflection outside the deadzone moves at full speed
SourceMoveFullSpeed(source, rot, dt) ==
  LET x       == AxisValue(source.axes, 2)
      z       == AxisValue(source.axes, 3)
      turned  == ApplyRotation(Vec(x, 0, z), rot)
      flat    == Vec(turned.x, 0, turned.z)
  IN  Scale(Normalize(flat), StepLength(dt, 1000))

\* faulty variant: the line _moveVec.y = 0 is left out
SourceMoveUnflattened(source, rot, dt) ==
  LET x       == AxisValue(source.axes, 2)
      z       == AxisValue(source.axes, 3)
      turned  == ApplyRotation(Vec(x, 0, z), rot)
  IN  Scale(Normalize(turned), StepLength(dt, Max(Abs(x), Abs(z))))

\* the displacement of one active source for the head orientation rot
SourceMove(source, rot, dt) ==
  LET x       == AxisValue(source.axes, 2)
      z       == AxisValue(source.axes, 3)
      turned  == ApplyRotation(Vec(x, 0, z), rot)
      flat    == Vec(turned.x, 0, turned.z)
  IN  Scale(Normalize(flat), StepLength(dt, Max(Abs(x), Abs(z))))

\* faulty variant: the break is left out, every active source moves the viewer
ThumbstickMoveAll(sources, rot, dt) ==
  LET RECURSIVE Sum(_)
      Sum(k) == IF k = 0 THEN Vec(0, 0, 0)
                ELSE IF SourceActive(sources[k])
                  THEN VecAdd(Sum(k - 1), SourceMove(sources[k], rot, dt))
                  ELSE Sum(k - 1)
  IN  Sum(Len(sources))

\* for (const source of session.inputSources) { ... break; }
ThumbstickMove(sources, rot, dt) ==
  LET active == {k \in 1..Len(sources) : SourceActive(sources[k])}
  IN  IF active = {} THEN Vec(0, 0, 0)
      ELSE SourceMove(sources[CHOOSE k \in active : \A j \in active : k <= j],
                      rot, dt)

\* faulty variant: opposing keys do not cancel, the positive direction wins
KeyAxisPlusWins(keys, minus, plus) ==
  IF keys \cap plus # {} THEN 1 ELSE IF keys \cap minus # {} THEN -1 ELSE 0

\* mx, mz from the held keys
KeyAxis(keys, minus, plus) ==
  (IF keys \cap plus # {} THEN 1 ELSE 0) - (IF keys \cap minus # {} THEN 1 ELSE 0)

\* faulty variant: the key vector is not normalised
KeyboardMoveUnnormalized(keys, yawNow, dt) ==
  LET mx == KeyAxis(keys, {"KeyA", "ArrowLeft"}, {"KeyD", "ArrowRight"})
      mz == KeyAxis(keys, {"KeyW", "ArrowUp"}, {"KeyS", "ArrowDown"})
  IN  IF mx = 0 /\ mz = 0 THEN Vec(0, 0, 0)
      ELSE Scale(RotateY(Vec(mx * 1000, 0, mz * 1000), yawNow),
                 StepLength(dt, 1000))

\* desktop WASD / arrow keys
KeyboardMove(keys, yawNow, dt) ==
  LET mx == KeyAxis(keys, {"KeyA", "ArrowLeft"}, {"KeyD", "ArrowRight"})
      mz == KeyAxis(keys, {"KeyW", "ArrowUp"}, {"KeyS", "ArrowDown"})
  IN  IF mx = 0 /\ mz = 0 THEN Vec(0, 0, 0)
      ELSE Scale(RotateY(Normalize(Vec(mx * 1000, 0, mz * 1000)), yawNow),
                 StepLength(dt, 1000))

\* faulty variant: the clamp is left out
ClampPitchNone(p) == p

\* pitch = Math.max(-Math.PI / 2, Math.min(Math.PI / 2, pitch))
ClampPitch(p) == Max(-HalfPi, Min(HalfPi, p))

(***************************************************************************)
(* Inputs the environment delivers.                                        *)
(***************************************************************************)
\* pointer positions of click and mousemove events, as device coordinates
Cursors == {<<0, -454>>, <<0, -950>>, <<0, 500>>}

\* movementX, movementY of mousemove events, in pixels
Movements == {<<786, 786>>, <<0, -5000>>}

\* key codes delivered: forward and a sideways arrow key
Codes == {"KeyW", "ArrowLeft"}

\* frame times in milliseconds
Dts == {100}

NoPad == [gamepad |-> FALSE, axes |-> <<>>]

Pad(x, z) == [gamepad |-> TRUE, axes |-> <<0, 0, x, z>>]

\* session.inputSources of a frame
InputSources ==
  { <<NoPad, Pad(0, -1000)>>, <<Pad(100, 100), Pad(1000, 0)>>,
    <<[gamepad |-> TRUE, axes |-> <<0, 0>>]>> }

\* head orientations the headset reports
\* (straight down; up 30 degrees and turned 45 degrees)
HeadPoses == { [pitch |-> -HalfPi, yaw |-> 0], [pitch |-> 524, yaw |-> 785] }

\* controller poses of a select event: height above the rig and aim
ControllerPoses ==
  { [height |-> 1000, rot |-> [pitch |-> -423, yaw |-> 0]],
    [height |-> 1000, rot |-> [pitch |-> 0, yaw |-> 0]] }

BlendModes == {"opaque", "alpha-blend"}

(***************************************************************************)
(* State.                                                                  *)
(***************************************************************************)
VARIABLES
  cameraRig,          \* cameraRig.position
  yaw, pitch,         \* desktop look angles
  isPointerLocked,    \* the controller's capture flag
  keysDown,           \* the codes whose keysDown entry is true
  hoveredRing,        \* the hovered marker, NoMarker for null
  markers,            \* materials and scales of the teleport markers
  cameraRotation,     \* camera.rotation (pitch, yaw) as set on desktop
  presenting,         \* renderer.xr.isPresenting
  environment,        \* environmentGroup.visible, scene.background, scene.fog
  pointerLockElement, \* document.pointerLockElement === renderer.domElement
  lockRequest,        \* a requestPointerLock() the browser has not answered
  cursor,             \* renderer.domElement.style.cursor
  walked,             \* millimetres walked so far (bounds the exploration)
  lastKeyDown,        \* history: codes whose most recent key event was a keydown
  boot,               \* start-up: "loading", "started", "rendering" or "failed"
  hud                 \* what the #hud element shows

vars == <<cameraRig, yaw, pitch, isPointerLocked, keysDown, hoveredRing, markers,
          cameraRotation, presenting, environment, pointerLockElement,
          lockRequest, cursor, walked, lastKeyDown, boot, hud>>

ShownEnvironment == [visible |-> TRUE, background |-> "color", fog |-> "fog"]

HiddenEnvironment == [visible |-> FALSE, background |-> "null", fog |-> "null"]

Init ==
  /\ cameraRig = Vec(0, 0, 0)
  /\ yaw = 0
  /\ pitch = 0
  /\ isPointerLocked = FALSE
  /\ keysDown = {}
  /\ hoveredRing = NoMarker
  /\ markers = NormalMarkers
  /\ cameraRotation = [pitch |-> 0, yaw |-> 0]
  /\ presenting = FALSE
  /\ environment = ShownEnvironment
  /\ pointerLockElement = FALSE
  /\ lockRequest = FALSE
  /\ cursor = ""
  /\ walked = 0
  /\ lastKeyDown = {}
  /\ boot = "started"
  /\ hud = "controls"

(***************************************************************************)
(* Event handlers.                                                         *)
(***************************************************************************)
\* faulty variant: a pick that hits nothing sends the viewer to the origin
TeleportHomeOnMiss(rig, hit) ==
  IF hit = NoMarker THEN Vec(0, 0, 0)
  ELSE Vec(teleportPositions[hit].x, 0, teleportPositions[hit].z)

\* faulty variant: the viewer is put at the disc's own height
TeleportToDisc(rig, hit) ==
  IF hit = NoMarker THEN rig
  ELSE Vec(teleportPositions[hit].x, MarkerY, teleportPositions[hit].z)

\* cameraRig.position.set(target.x, 0, target.z) when the pick hit a marker
Teleport(rig, hit) ==
  IF hit = NoMarker THEN rig
  ELSE Vec(teleportPositions[hit].x, 0, teleportPositions[hit].z)

\* faulty variant: a click always picks from the pointer position
ClickPointCursor(locked, c) == c

\* the point a desktop click picks from: the pointer position, or the
\* screen centre (crosshair) while the pointer is locked
ClickPoint(locked, c) == IF locked THEN <<0, 0>> ELSE c

\* faulty variant: the early return after a teleport is left out
ClickRequestsLockAfterHit(locked, hit) == ~locked

\* a click asks for the pointer lock when it was not locked and hit nothing
ClickRequestsLock(locked, hit) == ~locked /\ hit = NoMarker

\* faulty variant: the click listener does not ask for a session
ClickIgnoredNever(vr) == FALSE

\* the click listener returns at once while a session presents
ClickIgnored(vr) == vr

\* renderer.domElement 'click'
Click(c) ==
  /\ UNCHANGED <<yaw, pitch, isPointerLocked, keysDown, hoveredRing, markers,
                 cameraRotation, presenting, environment, pointerLockElement,
                 cursor, walked,
                 lastKeyDown, boot, hud>>
  /\ IF ClickIgnored(presenting)
       THEN UNCHANGED <<cameraRig, lockRequest>>
       ELSE LET hit == resolvePick(cameraRig, cameraRotation, markers,
                                   ClickPoint(isPointerLocked, c))
            IN  /\ cameraRig' = Teleport(cameraRig, hit)
                /\ lockRequest' =
                     (lockRequest \/ ClickRequestsLock(isPointerLocked, hit))

\* document 'pointerlockchange'
PointerLockChange(held) ==
  /\ isPointerLocked' = held
  /\ cursor' = IF held THEN "none" ELSE ""

\* the browser grants a pending request and fires pointerlockchange
PointerLockGranted ==
  /\ UNCHANGED <<cameraRig, yaw, pitch, keysDown, hoveredRing, markers,
                 cameraRotation, presenting, environment, walked,
                 lastKeyDown, boot, hud>>
  /\ lockRequest
  /\ ~pointerLockElement
  /\ pointerLockElement' = TRUE
  /\ lockRequest' = FALSE
  /\ PointerLockChange(TRUE)

\* the browser refuses a pending request (pointerlockerror has no listener)
PointerLockDenied ==
  /\ UNCHANGED <<cameraRig, yaw, pitch, isPointerLocked, keysDown, hoveredRing,
                 markers, cameraRotation, presenting, environment,
                 pointerLockElement, cursor, walked,
                 lastKeyDown, boot, hud>>
  /\ lockRequest
  /\ lockRequest' = FALSE

\* Esc: the browser releases the lock and fires pointerlockchange
PointerLockReleased ==
  /\ UNCHANGED <<cameraRig, yaw, pitch, keysDown, hoveredRing, markers,
                 cameraRotation, presenting, environment, lockRequest, walked,
                 lastKeyDown, boot, hud>>
  /\ pointerLockElement
  /\ pointerLockElement' = FALSE
  /\ PointerLockChange(FALSE)

\* faulty variant: highlighting a marker overwrites its stored target
HighlightMovesTarget(ms, old, new) ==
  LET Swap(S) == (S \ {old}) \cup ({new} \ {NoMarker})
  IN  [ms EXCEPT !.white = Swap(@), !.bright = Swap(@),
                 !.overlayWhite = Swap(@), !.enlarged = Swap(@),
                 !.targets = [i \in Markers |->
                                IF i = new THEN [x |-> 0, z |-> 0] ELSE @[i]]]

\* faulty variant: the old marker is not un-highlighted
HighlightKeepsOld(ms, old, new) ==
  LET Add(S) == S \cup ({new} \ {NoMarker})
  IN  [ms EXCEPT !.white = Add(@), !.bright = Add(@),
                 !.overlayWhite = Add(@), !.enlarged = Add(@)]

\* un-highlight the old marker, highlight the new one
Highlight(ms, old, new) ==
  LET Swap(S) == (S \ {old}) \cup ({new} \ {NoMarker})
  IN  [ms EXCEPT !.white = Swap(@), !.bright = Swap(@),
                 !.overlayWhite = Swap(@), !.enlarged = Swap(@)]

\* faulty variant: a repeated pick of the hovered marker un-highlights it
HoverUpdateToggles(ms, old, new) == Highlight(ms, old, IF new # old THEN new ELSE NoMarker)

\* if (newHover !== hoveredRing) { ... }: the markers after a hover update
HoverUpdate(ms, old, new) == IF new # old THEN Highlight(ms, old, new) ELSE ms

\* faulty variant: mouse-look does not ask for the capture flag
LooksAroundAlways(locked, vr) == TRUE

\* the mouse-look branch is taken while the capture flag is set
LooksAround(locked, vr) == locked

\* faulty variant: the hover branch does not ask for a session
HoversInSession(locked, vr) == ~locked

\* the hover branch is taken with the pointer free and no VR session
Hovers(locked, vr) == ~locked /\ ~vr

\* document 'mousemove'
MouseMove(c, m) ==
  /\ UNCHANGED <<cameraRig, isPointerLocked, keysDown, cameraRotation,
                 presenting, environment, pointerLockElement, lockRequest, walked,
                 lastKeyDown, boot, hud>>
  /\ IF LooksAround(isPointerLocked, presenting)
       THEN /\ yaw' = yaw - m[1] * Sensitivity
            /\ pitch' = ClampPitch(pitch - m[2] * Sensitivity)
            /\ Abs(yaw') <= MaxYaw
            /\ UNCHANGED <<hoveredRing, markers, cursor>>
     ELSE IF Hovers(isPointerLocked, presenting)
       THEN LET newHover == resolvePick(cameraRig, cameraRotation, markers, c)
            IN  /\ markers' = HoverUpdate(markers, hoveredRing, newHover)
                /\ hoveredRing' = newHover
                /\ cursor' = IF newHover # NoMarker THEN "pointer" ELSE ""
                /\ UNCHANGED <<yaw, pitch>>
     ELSE UNCHANGED <<yaw, pitch, hoveredRing, markers, cursor>>

\* document 'keydown'
KeyDown(code) ==
  /\ UNCHANGED <<cameraRig, yaw, pitch, isPointerLocked, hoveredRing, markers,
                 cameraRotation, presenting, environment, pointerLockElement,
                 lockRequest, cursor, walked,
                 boot, hud>>
  /\ keysDown' = keysDown \cup {code}
  /\ lastKeyDown' = lastKeyDown \cup {code}
  /\ Cardinality(keysDown') <= MaxHeld

\* faulty variant: a keyup is dropped while a session presents
KeyUpDesktopOnly(code) ==
  /\ UNCHANGED <<cameraRig, yaw, pitch, isPointerLocked, hoveredRing, markers,
                 cameraRotation, presenting, environment, pointerLockElement,
                 lockRequest, cursor, walked, boot, hud>>
  /\ keysDown' = IF presenting THEN keysDown ELSE keysDown \ {code}
  /\ lastKeyDown' = lastKeyDown \ {code}

\* document 'keyup'
KeyUp(code) ==
  /\ UNCHANGED <<cameraRig, yaw, pitch, isPointerLocked, hoveredRing, markers,
                 cameraRotation, presenting, environment, pointerLockElement,
                 lockRequest, cursor, walked,
                 boot, hud>>
  /\ keysDown' = keysDown \ {code}
  /\ lastKeyDown' = lastKeyDown \ {code}

\* faulty variant: every session hides the environment
StartedEnvironmentHidden(env, blend) == HiddenEnvironment

\* what the sessionstart listener leaves of the environment
StartedEnvironment(env, blend) ==
  IF blend = "alpha-blend" THEN HiddenEnvironment ELSE env

\* renderer.xr 'sessionstart'
SessionStart(blend) ==
  /\ UNCHANGED <<cameraRig, yaw, pitch, isPointerLocked, keysDown, hoveredRing,
                 markers, cameraRotation, pointerLockElement, lockRequest,
                 cursor, walked,
                 lastKeyDown, boot, hud>>
  /\ ~presenting
  /\ presenting' = TRUE
  /\ environment' = StartedEnvironment(environment, blend)

\* renderer.xr 'sessionend'
SessionEnd ==
  /\ UNCHANGED <<cameraRig, yaw, pitch, isPointerLocked, keysDown, hoveredRing,
                 markers, cameraRotation, pointerLockElement, lockRequest,
                 cursor, walked,
                 lastKeyDown, boot, hud>>
  /\ presenting
  /\ presenting' = FALSE
  /\ environment' = ShownEnvironment

\* the pick of a controller ray: the controller is a child of the rig
SelectPick(rig, ms, ctrl) ==
  IntersectMarkers(Vec(rig.x, ctrl.height, rig.z),
                   ApplyRotation(Vec(0, 0, -1000), ctrl.rot), Scales(ms))

\* onSelect: 'selectstart' of a controller, which only a running session fires
Select(ctrl) ==
  /\ UNCHANGED <<yaw, pitch, isPointerLocked, keysDown, hoveredRing, markers,
                 cameraRotation, presenting, environment, pointerLockElement,
                 lockRequest, cursor, walked,
                 lastKeyDown, boot, hud>>
  /\ presenting
  /\ cameraRig' = Teleport(cameraRig, SelectPick(cameraRig, markers, ctrl))

(***************************************************************************)
(* The render frame.                                                       *)
(***************************************************************************)
\* pulse teleport markers
Pulse(ms, hovered) ==
  [ms EXCEPT !.bright = {hovered} \ {NoMarker},
             !.overlayBright = {hovered} \ {NoMarker}]

\* faulty variant: the thumbsticks are read without a session
StickMoveAlways(vr, sources, head, dt) == ThumbstickMove(sources, head, dt)

\* VR thumbstick locomotion runs while a session presents; head is the
\* camera's world orientation, which the headset drives
StickMove(vr, sources, head, dt) ==
  IF vr THEN ThumbstickMove(sources, head, dt) ELSE Vec(0, 0, 0)

\* faulty variant: walking needs the pointer lock
KeyMoveNeedsLock(vr, keys, yawNow, dt) ==
  IF ~vr /\ isPointerLocked THEN KeyboardMove(keys, yawNow, dt) ELSE Vec(0, 0, 0)

\* faulty variant: the keys are read during a session as well
KeyMoveInSession(vr, keys, yawNow, dt) == KeyboardMove(keys, yawNow, dt)

\* desktop keyboard locomotion runs while no session presents
KeyMove(vr, keys, yawNow, dt) ==
  IF ~vr THEN KeyboardMove(keys, yawNow, dt) ELSE Vec(0, 0, 0)

\* desktop look: camera.rotation.set(pitch, yaw, 0, 'YXZ') outside a session
\* and with the pointer locked
DesktopLook(rot, vr, locked, p, y) ==
  IF ~vr /\ locked THEN [pitch |-> p, yaw |-> y] ELSE rot

\* faulty variant: the loop is started outside the try block, before init()
LoopStartedAlways(b) == TRUE

\* renderer.setAnimationLoop(render) has been called: animate() runs after
\* init() inside the try block of the fonts.ready callback
LoopStarted(b) == b \in {"started", "rendering"}

\* render()
Render(dt, sources, head) ==
  LET stick == StickMove(presenting, sources, head, dt)
      keys  == KeyMove(presenting, keysDown, yaw, dt)
  IN  /\ UNCHANGED <<yaw, pitch, isPointerLocked, keysDown, hoveredRing,
                     presenting, environment, pointerLockElement, lockRequest,
                     cursor,
                 lastKeyDown, hud>>
      /\ LoopStarted(boot)
      /\ boot' = "rendering"
      /\ markers' = Pulse(markers, hoveredRing)
      /\ cameraRotation' = DesktopLook(cameraRotation, presenting,
                                       isPointerLocked, pitch, yaw)
      /\ cameraRig' = VecAdd(VecAdd(cameraRig, stick), keys)
      /\ walked' = walked + VecLength(stick) + VecLength(keys)
      /\ walked' <= MaxWalk

Next ==
  \/ \E c \in Cursors : Click(c)
  \/ PointerLockGranted
  \/ PointerLockDenied
  \/ PointerLockReleased
  \/ \E c \in Cursors, m \in Movements : MouseMove(c, m)
  \/ \E code \in Codes : KeyDown(code)
  \/ \E code \in Codes : KeyUp(code)
  \/ \E blend \in BlendModes : SessionStart(blend)
  \/ SessionEnd
  \/ \E ctrl \in ControllerPoses : Select(ctrl)
  \/ \E dt \in Dts, sources \in InputSources, head \in HeadPoses :
       Render(dt, sources, head)

Spec == Init /\ [][Next]_vars

(***************************************************************************)
(* Start-up: the document.fonts.ready callback runs init() and animate()   *)
(* inside one try block; the listeners and the animation loop exist only   *)
(* after it.                                                               *)
(***************************************************************************)
BootInit ==
  /\ cameraRig = Vec(0, 0, 0)
  /\ yaw = 0
  /\ pitch = 0
  /\ isPointerLocked = FALSE
  /\ keysDown = {}
  /\ hoveredRing = NoMarker
  /\ markers = NormalMarkers
  /\ cameraRotation = [pitch |-> 0, yaw |-> 0]
  /\ presenting = FALSE
  /\ environment = ShownEnvironment
  /\ pointerLockElement = FALSE
  /\ lockRequest = FALSE
  /\ cursor = ""
  /\ walked = 0
  /\ lastKeyDown = {}
  /\ boot = "loading"
  /\ hud = ""

\* what the fonts.ready callback leaves: try { init(); animate(); } or the
\* catch branch, which writes the error to the HUD
BootOutcome(ok) ==
  IF ok THEN [boot |-> "started", hud |-> "controls"]
  ELSE [boot |-> "failed", hud |-> "error"]

\* document.fonts.ready.then(...): init() returns or throws
FontsReady(ok) ==
  /\ UNCHANGED <<cameraRig, yaw, pitch, isPointerLocked, keysDown, hoveredRing,
                 markers, cameraRotation, presenting, environment,
                 pointerLockElement, lockRequest, cursor, walked, lastKeyDown>>
  /\ boot = "loading"
  /\ boot' = BootOutcome(ok).boot
  /\ hud' = BootOutcome(ok).hud

\* init() has added the event listeners
ListenersAdded(b) == b \in {"started", "rendering"}

\* the browser delivers events to the listeners init() added and calls
\* render() whenever the animation loop is set
BootNext ==
  \/ \E ok \in BOOLEAN : FontsReady(ok)
  \/ ListenersAdded(boot) /\ Next
  \/ \E dt \in Dts, sources \in InputSources, head \in HeadPoses :
       Render(dt, sources, head)

BootSpec == BootInit /\ [][BootNext]_vars

(***************************************************************************)
(* Frame study: render() applied to the states a frame can find the        *)
(* controller in, for a wider range of held keys, look angles, frame times *)
(* and thumbstick readings.                                                *)
(***************************************************************************)
\* key codes held when a frame runs
FrameCodes == {"KeyW", "KeyA", "KeyS", "KeyD", "ArrowUp", "ArrowLeft"}

\* chords of three and four keys with opposing directions, arrows included
FrameChords ==
  { {"KeyW", "KeyS", "KeyA"}, {"KeyW", "KeyS", "KeyA", "KeyD"},
    {"ArrowUp", "ArrowDown"}, {"ArrowLeft", "ArrowRight", "ArrowDown"} }

FrameKeys ==
  {K \in SUBSET FrameCodes : Cardinality(K) <= MaxKeys} \cup FrameChords

\* yaw left by earlier mouse-look (whole pixels of movementX)
FrameYaws == {0, 786, -1572}

\* frame times in milliseconds
FrameDts == {16, 50, 100}

\* the marker hovered when a frame runs
FrameHovers == {NoMarker, 2}

\* session.inputSources of a frame: readings inside the deadzone, partial and
\* full deflections, two active controllers, a gamepad without thumbstick
\* axes, and a reading outside [-1, 1]
FrameSources ==
  { <<Pad(100, 100)>>, <<NoPad, Pad(-149, 0)>>, <<Pad(140, 140)>>,
    <<Pad(0, -500)>>, <<Pad(0, -1000)>>, <<Pad(700, 700)>>,
    <<Pad(0, -800), Pad(1000, 0)>>,
    <<[gamepad |-> TRUE, axes |-> <<0, 0>>], Pad(1000, 200)>>,
    <<Pad(0, -2000)>> }

FrameInit ==
  /\ cameraRig = Vec(0, 0, 0)
  /\ yaw \in FrameYaws
  /\ pitch = 0
  /\ isPointerLocked \in BOOLEAN
  /\ keysDown \in FrameKeys
  /\ hoveredRing \in FrameHovers
  /\ markers = Highlight(NormalMarkers, NoMarker, hoveredRing)
  /\ cameraRotation = [pitch |-> 0, yaw |-> yaw]
  /\ presenting \in BOOLEAN
  /\ environment = ShownEnvironment
  /\ pointerLockElement = isPointerLocked
  /\ lockRequest = FALSE
  /\ cursor = IF isPointerLocked THEN "none"
              ELSE IF hoveredRing # NoMarker THEN "pointer" ELSE ""
  /\ walked = 0
  /\ lastKeyDown = keysDown
  /\ boot = "started"
  /\ hud = "controls"

\* frames are followed up to the first one that displaces the viewer
FrameNext ==
  /\ walked = 0
  /\ \E dt \in FrameDts, sources \in FrameSources, head \in HeadPoses :
       Render(dt, sources, head)

FrameSpec == FrameInit /\ [][FrameNext]_vars

(***************************************************************************)
(* Vocabulary of the properties.                                           *)
(***************************************************************************)
\* the point on the ground at marker i
MarkerPoint(i) == Vec(teleportPositions[i].x, 0, teleportPositions[i].z)

\* the viewer stands exactly on marker i
AtMarker(i) == cameraRig = MarkerPoint(i)

\* a mousemove event with the pointer at c
MouseMoveAt(c) == \E m \in Movements : MouseMove(c, m)

\* the markers that carry the hover colour or the hover scale
Highlighted == markers.white \cup markers.overlayWhite \cup markers.enlarged

\* colour and scale of every marker (their opacity pulses with every frame)
HighlightState == <<markers.white, markers.overlayWhite, markers.enlarged>>

FrameStep ==
  \E dt \in Dts, sources \in InputSources, head \in HeadPoses :
    Render(dt, sources, head)

\* a frame in which the thumbstick displaces the viewer
StickStep ==
  \E dt \in Dts, sources \in InputSources, head \in HeadPoses :
    /\ Render(dt, sources, head)
    /\ StickMove(presenting, sources, head, dt) # Vec(0, 0, 0)

SelectStep == \E ctrl \in ControllerPoses : Select(ctrl)

\* the codes render() reads
MoveCodes ==
  {"KeyW", "ArrowUp", "KeyS", "ArrowDown", "KeyA", "ArrowLeft", "KeyD",
   "ArrowRight"}

\* both thumbstick axes of a source read inside the deadzone (or it has no
\* gamepad)
InDeadzone(source) ==
  \/ ~source.gamepad
  \/ \A k \in {2, 3} :
       k + 1 <= Len(source.axes) => Abs(source.axes[k + 1]) <= Deadzone

\* the displacement of the viewer in a step
Moved ==
  Vec(cameraRig'.x - cameraRig.x, cameraRig'.y - cameraRig.y,
      cameraRig'.z - cameraRig.z)

\* the codes that move along the forward axis and along the side axis
ForwardCodes == {"KeyW", "ArrowUp", "KeyS", "ArrowDown"}

SideCodes == {"KeyA", "ArrowLeft", "KeyD", "ArrowRight"}

\* both directions of the forward axis, of the side axis, are held
OpposedForward(keys) ==
  keys \cap {"KeyW", "ArrowUp"} # {} /\ keys \cap {"KeyS", "ArrowDown"} # {}

OpposedSide(keys) ==
  keys \cap {"KeyA", "ArrowLeft"} # {} /\ keys \cap {"KeyD", "ArrowRight"} # {}

\* the held keys without those of an axis on which both directions are held
Uncancelled(keys) ==
  (keys \ (IF OpposedForward(keys) THEN ForwardCodes ELSE {}))
    \ (IF OpposedSide(keys) THEN SideCodes ELSE {})

\* a desktop frame of the frame study with frame time dt
DesktopFrame(dt) ==
  /\ ~presenting
  /\ \E sources \in FrameSources, head \in HeadPoses : Render(dt, sources, head)

\* the first source of a frame that moves the viewer, 0 when none does
FirstActive(sources) ==
  IF \A k \in 1..Len(sources) : ~SourceActive(sources[k]) THEN 0
  ELSE CHOOSE k \in 1..Len(sources) :
         /\ SourceActive(sources[k])
         /\ \A j \in 1..(k - 1) : ~SourceActive(sources[j])

\* length of the raw thumbstick reading of a source (axes 2 and 3)
Magnitude(source) ==
  LET Raw(k) == IF source.gamepad /\ k + 1 <= Len(source.axes)
                  THEN source.axes[k + 1] ELSE 0
  IN  Sqrt(Raw(2) * Raw(2) + Raw(3) * Raw(3))

\* the pick a desktop click at c makes in the current state
ClickHit(c) ==
  resolvePick(cameraRig, cameraRotation, markers, ClickPoint(isPointerLocked, c))

\* the pick a hover update at c makes in the current state
HoverHit(c) == resolvePick(cameraRig, cameraRotation, markers, c)

(***************************************************************************)
(* C1: while a VR session is active, no keyboard or mouse event and no     *)
(* render frame changes yaw or pitch, and the position changes only        *)
(* through controller select or thumbstick input.                          *)
(***************************************************************************)
C1_DesktopInputSuppressedInVR ==
  [][(presenting /\ presenting') =>
       /\ yaw' = yaw
       /\ pitch' = pitch
       /\ (cameraRig' # cameraRig => SelectStep \/ StickStep)]_vars

C3_TeleportExact ==
  [][/\ \A c \in Cursors :
          (~presenting /\ Click(c) /\ ClickHit(c) # NoMarker) =>
             /\ cameraRig' = MarkerPoint(ClickHit(c))
             /\ yaw' = yaw
             /\ pitch' = pitch
     /\ \A ctrl \in ControllerPoses :
          (Select(ctrl) /\ SelectPick(cameraRig, markers, ctrl) # NoMarker) =>
             /\ cameraRig' = MarkerPoint(SelectPick(cameraRig, markers, ctrl))
             /\ yaw' = yaw
             /\ pitch' = pitch]_vars

\* the viewer stands on a marker away from the start with the view turned
C3_Witness ==
  /\ \E i \in Markers \ {1} : AtMarker(i)
  /\ yaw # 0
  /\ pitch # 0

(***************************************************************************)
(* C4: pitch lies in [-pi/2, pi/2] in every reachable state; yaw is not    *)
(* clamped.                                                                *)
(***************************************************************************)
C4_PitchClamped == -HalfPi <= pitch /\ pitch <= HalfPi

\* pitch at the upper clamp while yaw has passed a quarter turn
C4_Witness == pitch = HalfPi /\ yaw < -HalfPi

(***************************************************************************)
(* C5: a desktop click with the pointer free picks from the cursor; on a   *)
(* hit the viewer teleports and no pointer lock is requested, on a miss    *)
(* the viewer stays and the pointer lock is requested.                     *)
(***************************************************************************)
C5_ClickSingleDecision ==
  [][\A c \in Cursors :
       (~presenting /\ ~isPointerLocked /\ Click(c)) =>
          LET hit == HoverHit(c)
          IN  IF hit # NoMarker
                THEN cameraRig' = MarkerPoint(hit) /\ lockRequest' = lockRequest
                ELSE cameraRig' = cameraRig /\ lockRequest']_vars

\* teleported to the far marker ahead with no lock requested or held
C5_Witness ==
  /\ AtMarker(12)
  /\ ~lockRequest
  /\ ~isPointerLocked
  /\ ~presenting

(***************************************************************************)
(* C6: while the pointer is locked a click picks along the view-centre     *)
(* ray: its outcome does not depend on the cursor coordinates of the       *)
(* event, and it never requests the pointer lock.                          *)
(***************************************************************************)
C6_LockedClickFromCentre ==
  [][\A c \in Cursors :
       (~presenting /\ isPointerLocked /\ Click(c)) =>
          /\ cameraRig' = Teleport(cameraRig, HoverHit(<<0, 0>>))
          /\ lockRequest' = lockRequest]_vars

\* locked, looking straight down, back on the centre marker after walking
C6_Witness ==
  /\ isPointerLocked
  /\ ~presenting
  /\ cameraRotation.pitch = -HalfPi
  /\ walked > 0
  /\ AtMarker(1)

(***************************************************************************)
(* C7: the viewer's Y coordinate is 0 in every reachable state.            *)
(***************************************************************************)
C7_GroundPlane == cameraRig.y = 0

\* walked from the origin under a full forward push of the thumbstick with
\* the head pitched up and turned
C7_Witness ==
  /\ presenting
  /\ walked > 0
  /\ cameraRig = SourceMove(Pad(0, -1000), [pitch |-> 524, yaw |-> 785], 100)

(***************************************************************************)
(* C8: at most one marker is highlighted: the markers that carry the hover *)
(* colour or scale are none, or exactly the hovered marker.                *)
(***************************************************************************)
C8_SingleHover ==
  /\ Highlighted = {hoveredRing} \ {NoMarker}
  /\ markers.white = Highlighted
  /\ markers.overlayWhite = Highlighted
  /\ markers.enlarged = Highlighted

\* the hover moved on from a marker a frame had drawn as hovered
C8_Witness ==
  /\ hoveredRing # NoMarker
  /\ markers.overlayBright \ {hoveredRing} # {}

(***************************************************************************)
(* C9: while a VR session is active no marker is in the hovered state.     *)
(***************************************************************************)
C9_NoHoverInVR == presenting => (hoveredRing = NoMarker /\ Highlighted = {})

(***************************************************************************)
(* C10: a hover update whose pick is the marker already hovered changes    *)
(* neither the hovered marker nor any marker; one whose pick differs makes *)
(* the one transition to the picked marker.                                *)
(***************************************************************************)
C10_HoverIdempotent ==
  [][\A c \in Cursors :
       (~isPointerLocked /\ ~presenting /\ MouseMoveAt(c)) =>
          /\ hoveredRing' = HoverHit(c)
          /\ (HoverHit(c) = hoveredRing) = (markers' = markers)]_vars

\* a marker is hovered and a pointer position picks it again
C10_Witness ==
  /\ ~isPointerLocked
  /\ ~presenting
  /\ hoveredRing # NoMarker
  /\ \E c \in Cursors : HoverHit(c) = hoveredRing

(***************************************************************************)
(* C11: a pick is deterministic and has no effect of its own: a hover pick *)
(* repeated with the same pointer position right after the hover update    *)
(* resolves to the same marker and leaves the viewer where it is; a click  *)
(* with the pointer locked or a controller select whose pick hits nothing  *)
(* changes nothing at all; no click changes the highlight of a marker.     *)
(***************************************************************************)
C11_PickDeterministic ==
  [][/\ \A c \in Cursors :
          (~isPointerLocked /\ ~presenting /\ MouseMoveAt(c)) =>
             /\ cameraRig' = cameraRig
             /\ yaw' = yaw
             /\ pitch' = pitch
             /\ resolvePick(cameraRig', cameraRotation', markers', c) = HoverHit(c)
     /\ \/ markers' = markers /\ hoveredRing' = hoveredRing
        \/ \A c \in Cursors : ~Click(c)
     /\ \/ UNCHANGED vars
        \/ \A c \in Cursors :
             ~(isPointerLocked /\ Click(c) /\ ClickHit(c) = NoMarker)
     /\ \/ UNCHANGED vars
        \/ \A ctrl \in ControllerPoses :
             ~(Select(ctrl) /\ SelectPick(cameraRig, markers, ctrl) = NoMarker)]_vars

\* a marker off the view centre is hovered and enlarged, a pointer position
\* picks it, and the pointer has since been locked with the view level
C11_Witness ==
  /\ isPointerLocked
  /\ ~presenting
  /\ hoveredRing \in markers.enlarged
  /\ HoverHit(<<0, 0>>) = NoMarker
  /\ \E c \in Cursors : HoverHit(c) = hoveredRing

(***************************************************************************)
(* C12: a mouse move with the pointer not locked leaves yaw, pitch and     *)
(* position unchanged; with the pointer locked it sets yaw to              *)
(* yaw - dx * 0.002 and pitch to pitch - dy * 0.002 clamped to             *)
(* [-pi/2, pi/2]. After every pointerlockchange the capture flag equals    *)
(* "the render surface holds the pointer lock".                            *)
(***************************************************************************)
C12_MouseLookOnlyWhenLocked ==
  [][/\ isPointerLocked = pointerLockElement
     /\ (PointerLockGranted \/ PointerLockReleased) =>
          isPointerLocked' = pointerLockElement'
     /\ \/ ~isPointerLocked /\ yaw' = yaw /\ pitch' = pitch /\ cameraRig' = cameraRig
        \/ \A c \in Cursors, m \in Movements :
             MouseMove(c, m) =>
                /\ isPointerLocked
                /\ yaw' = yaw - m[1] * Sensitivity
                /\ pitch' >= -HalfPi
                /\ pitch' <= HalfPi
                /\ LET free == pitch - m[2] * Sensitivity
                   IN  \/ pitch' = free
                       \/ free > HalfPi /\ pitch' = HalfPi
                       \/ free < -HalfPi /\ pitch' = -HalfPi]_vars

\* the lock has been released after a mouse-look that turned the view and
\* ran the pitch into its lower limit
C12_Witness ==
  /\ ~isPointerLocked
  /\ ~pointerLockElement
  /\ yaw = -1572
  /\ pitch = -HalfPi

(***************************************************************************)
(* C13: a desktop frame displaces the viewer by an amount that depends     *)
(* only on the held keys, yaw and the frame time: the same with the        *)
(* pointer locked or free, and with a marker hovered or not.               *)
(***************************************************************************)
C13_KeyboardIgnoresCapture ==
  [][\A dt \in FrameDts :
       DesktopFrame(dt) => Moved = KeyboardMove(keysDown, yaw, dt)]_vars

\* walked a full step forward with the pointer locked and a marker hovered
C13_Witness ==
  /\ ~presenting
  /\ isPointerLocked
  /\ hoveredRing # NoMarker
  /\ keysDown = {"KeyW"}
  /\ walked = StepLength(100, 1000)

(***************************************************************************)
(* C14: on desktop any key combination with a non-zero direction moves the *)
(* viewer by speed * dt per frame (the length of a single key's step, not  *)
(* more for a diagonal), along the sum of the held directions turned by    *)
(* yaw; a combination that cancels moves nothing.                          *)
(***************************************************************************)
C14_DiagonalSpeed ==
  [][\A dt \in FrameDts :
       DesktopFrame(dt) =>
          LET mx    == KeyAxis(keysDown, {"KeyA", "ArrowLeft"}, {"KeyD", "ArrowRight"})
              mz    == KeyAxis(keysDown, {"KeyW", "ArrowUp"}, {"KeyS", "ArrowDown"})
              along == RotateY(Vec(mx * 1000, 0, mz * 1000), yaw)
          IN  IF mx = 0 /\ mz = 0 THEN Moved = Vec(0, 0, 0)
              ELSE /\ Abs(VecLength(Moved) - StepLength(dt, 1000)) <= Slack
                   /\ Moved.y = 0
                   /\ Moved.x * along.x + Moved.z * along.z > 0
                   /\ Abs(Moved.x * along.z - Moved.z * along.x)
                        <= Slack * VecLength(along)]_vars

\* forward and left held together with the view turned: one diagonal step
C14_Witness ==
  /\ ~presenting
  /\ keysDown = {"KeyW", "KeyA"}
  /\ yaw = 786
  /\ walked > 0

(***************************************************************************)
(* C15: a VR frame in which every thumbstick reads a magnitude below the   *)
(* 0.15 deadzone (such as 0.10 on both axes) displaces the viewer by zero. *)
(***************************************************************************)
C15_Deadzone ==
  [][\A sources \in FrameSources :
       ( /\ presenting
         /\ \A k \in 1..Len(sources) : Magnitude(sources[k]) < Deadzone
         /\ \E dt \in FrameDts, head \in HeadPoses : Render(dt, sources, head) )
         => Moved = Vec(0, 0, 0)]_vars

\* a frame has run in a session (it set the hovered overlay's opacity) and
\* the viewer has not been displaced
C15_Witness ==
  /\ presenting
  /\ hoveredRing # NoMarker
  /\ hoveredRing \in markers.overlayBright
  /\ walked = 0
  /\ cameraRig = Vec(0, 0, 0)

C17_FirstSourceWins ==
  [][\A dt \in FrameDts, sources \in FrameSources, head \in HeadPoses :
       (presenting /\ Render(dt, sources, head)) =>
          Moved = IF FirstActive(sources) = 0 THEN Vec(0, 0, 0)
                  ELSE SourceMove(sources[FirstActive(sources)], head, dt)]_vars

\* of two deflected controllers the first has moved the viewer
C17_Witness ==
  /\ presenting
  /\ walked > 0
  /\ cameraRig = SourceMove(Pad(0, -800), [pitch |-> 524, yaw |-> 785], 50)

(***************************************************************************)
(* C18: no thumbstick reading, even one outside [-1, 1] or from a gamepad  *)
(* without axes 2 and 3, displaces the viewer in a frame by more than a    *)
(* full in-range deflection does (speed * dt).                             *)
(***************************************************************************)
C18_OutOfRangeBounded ==
  [][\A dt \in FrameDts :
       ( /\ presenting
         /\ \E sources \in FrameSources, head \in HeadPoses :
              Render(dt, sources, head) )
         => VecLength(Moved) <= StepLength(dt, 1000) + Slack]_vars

(***************************************************************************)
(* C19: no input, no change: a click or a controller select whose pick     *)
(* hits no marker, a desktop frame with no movement key held and a VR      *)
(* frame whose thumbsticks all read inside the deadzone leave position,    *)
(* yaw and pitch unchanged.                                                *)
(***************************************************************************)
C19_NoInputNoChange ==
  [][\/ cameraRig' = cameraRig /\ yaw' = yaw /\ pitch' = pitch
     \/ /\ \A c \in Cursors : ~(Click(c) /\ ClickHit(c) = NoMarker)
        /\ \A ctrl \in ControllerPoses :
             ~(Select(ctrl) /\ SelectPick(cameraRig, markers, ctrl) = NoMarker)
        /\ \A dt \in Dts, sources \in InputSources, head \in HeadPoses :
             ~ /\ IF presenting
                    THEN \A k \in 1..Len(sources) : InDeadzone(sources[k])
                    ELSE keysDown \cap MoveCodes = {}
               /\ Render(dt, sources, head)]_vars

\* after walking, the viewer has come to rest with every key released and a
\* lock request made by a click that hit nothing
C19_Witness ==
  /\ ~presenting
  /\ walked > 0
  /\ keysDown = {}
  /\ lockRequest
  /\ \E c \in Cursors : HoverHit(c) = NoMarker

(***************************************************************************)
(* C20: the list of teleport targets is the one init() built, in every     *)
(* reachable state: centre plus four rings of five, each with its          *)
(* coordinates; only the highlight of a marker changes.                    *)
(***************************************************************************)
C20_TargetsFixed ==
  /\ markers.targets = teleportPositions
  /\ Len(markers.targets) = 1 + 4 * panelCount

\* the highlight has moved between markers and the viewer has teleported
C20_Witness ==
  /\ hoveredRing # NoMarker
  /\ markers.overlayBright \ {hoveredRing} # {}
  /\ \E i \in Markers \ {1} : AtMarker(i)

(***************************************************************************)
(* C21: a pick uses the coordinates of the event being handled: a hover    *)
(* update makes the marker under that event's pointer position the hovered *)
(* one, a click with the pointer free teleports to the marker under its    *)
(* own position, and a frame draws as hovered the marker the last pointer  *)
(* event left hovered.                                                     *)
(***************************************************************************)
C21_PickFromEvent ==
  [][/\ \/ isPointerLocked
        \/ presenting
        \/ \A c \in Cursors :
             LET under ==
                   IntersectMarkers(Vec(cameraRig.x, EyeHeight, cameraRig.z),
                                    CameraRay(cameraRotation, c), Scales(markers))
             IN  /\ hoveredRing' = under \/ ~MouseMoveAt(c)
                 /\ cameraRig' = Teleport(cameraRig, under) \/ ~Click(c)
     /\ \/ /\ markers'.bright = {hoveredRing} \ {NoMarker}
           /\ markers'.overlayBright = {hoveredRing} \ {NoMarker}
        \/ ~FrameStep]_vars

\* the pointer has left the marker the last frame drew as hovered, and no
\* frame has run since
C21_Witness ==
  /\ ~isPointerLocked
  /\ ~presenting
  /\ hoveredRing = NoMarker
  /\ markers.overlayBright # {}

(***************************************************************************)
(* C22: the controller is in exactly one of the modes Desktop-Look,        *)
(* Desktop-Locked and VR-Presenting: no reachable state has a VR session   *)
(* active while the capture flag is set.                                   *)
(***************************************************************************)
C22_OneMode == ~(presenting /\ isPointerLocked)

(***************************************************************************)
(* C23: a click while a VR session is active changes nothing: no teleport, *)
(* no pointer-lock request, wherever it lands and whether or not the       *)
(* capture flag is set.                                                    *)
(***************************************************************************)
C23_ClickInertInVR ==
  [][\/ ~presenting
     \/ \A c \in Cursors : ~Click(c)
     \/ UNCHANGED vars]_vars

\* a session is active, no lock is pending, and a click at some pointer
\* position would pick a marker other than the one the viewer stands on
C23_Witness ==
  /\ presenting
  /\ ~lockRequest
  /\ \E c \in Cursors : HoverHit(c) # NoMarker /\ ~AtMarker(HoverHit(c))

(***************************************************************************)
(* C24: in one frame at most one locomotion path moves the viewer: during  *)
(* a session the frame's displacement is the thumbstick's alone, outside   *)
(* a session the keyboard's alone.                                         *)
(***************************************************************************)
C24_OnePathPerFrame ==
  [][IF presenting
       THEN \A dt \in FrameDts, sources \in FrameSources, head \in HeadPoses :
              Render(dt, sources, head) =>
                 Moved = ThumbstickMove(sources, head, dt)
       ELSE \E dt \in FrameDts :
              /\ Moved = KeyboardMove(keysDown, yaw, dt)
              /\ DesktopFrame(dt)]_vars

\* a session frame moved the viewer by the stick while two movement keys
\* were held
C24_Witness ==
  /\ presenting
  /\ keysDown = {"KeyW", "KeyA"}
  /\ walked > 0

(***************************************************************************)
(* C28: opposing movement keys cancel: with both directions of an axis     *)
(* held (letters, arrows or a mix) a desktop frame moves the viewer as if  *)
(* no key of that axis were held, and with both axes cancelled the         *)
(* position does not change.                                               *)
(***************************************************************************)
C28_OpposingKeysCancel ==
  [][\A dt \in FrameDts :
       DesktopFrame(dt) =>
         /\ Moved = KeyboardMove(Uncancelled(keysDown), yaw, dt)
         /\ (OpposedForward(keysDown) /\ OpposedSide(keysDown)) =>
               cameraRig' = cameraRig
         /\ (OpposedForward(keysDown) /\ keysDown \cap SideCodes = {}) =>
               cameraRig' = cameraRig
         /\ (OpposedSide(keysDown) /\ keysDown \cap ForwardCodes = {}) =>
               cameraRig' = cameraRig]_vars

\* W and S were held together with A, and the desktop frame moved the viewer
\* sideways only
C28_Witness ==
  /\ ~presenting
  /\ keysDown = {"KeyW", "KeyS", "KeyA"}
  /\ yaw = 0
  /\ cameraRig.x < 0
  /\ cameraRig.z = 0

(***************************************************************************)
(* C25: after every render frame outside VR the camera's rotation equals   *)
(* (pitch, yaw).                                                           *)
(***************************************************************************)
C25_CameraAgrees ==
  [][\/ cameraRotation' = [pitch |-> pitch', yaw |-> yaw']
     \/ presenting
     \/ ~FrameStep]_vars

(***************************************************************************)
(* C26: the hovered marker changes only in a mouse move with the pointer   *)
(* free and no VR session, and then becomes the pick of that event; every  *)
(* other event and every frame leaves it unchanged.                        *)
(***************************************************************************)
C26_HoverChangesOnlyOnMove ==
  [][\/ hoveredRing' = hoveredRing
     \/ /\ ~isPointerLocked
        /\ ~presenting
        /\ \E c \in Cursors : MouseMoveAt(c) /\ hoveredRing' = HoverHit(c)]_vars

\* a marker stayed hovered while the pointer was locked, a key went down and
\* the viewer walked
C26_Witness ==
  /\ hoveredRing # NoMarker
  /\ isPointerLocked
  /\ keysDown # {}
  /\ walked > 0

(***************************************************************************)
(* C27: in every mode, VR included, a key counts as held exactly when its  *)
(* most recent key event was a keydown, and a desktop frame moves the      *)
(* viewer by exactly the keys so held.                                     *)
(***************************************************************************)
C27_KeysTrackedInEveryMode ==
  [][/\ keysDown' = lastKeyDown'
     /\ \/ presenting
        \/ \E dt \in Dts :
             cameraRig' = VecAdd(cameraRig, KeyboardMove(lastKeyDown, yaw, dt))
        \/ ~FrameStep]_vars

\* a key is held while a session presents and the stick has moved the viewer
C27_Witness ==
  /\ presenting
  /\ lastKeyDown = {"ArrowLeft"}
  /\ walked > 0

(***************************************************************************)
(* C30: session start hides the environment (and clears background and     *)
(* fog) exactly when the session's blend mode is alpha-blend and otherwise *)
(* leaves it alone; outside a session the environment is visible with      *)
(* background and fog in place.                                            *)
(***************************************************************************)
C30_HiddenOnlyInPassthrough ==
  [][/\ \A blend \in BlendModes :
          SessionStart(blend) =>
             IF blend = "alpha-blend" THEN environment' = HiddenEnvironment
             ELSE environment' = environment
     /\ ~presenting => environment = ShownEnvironment
     /\ ~presenting' => environment' = ShownEnvironment
     /\ environment' # environment => presenting' # presenting]_vars

\* a passthrough session is running with the environment hidden
C30_Witness ==
  /\ presenting
  /\ environment = HiddenEnvironment
  /\ walked > 0

=============================================================================
